---- MODULE Spec2Model ----
(***************************************************************************)
(* Case-management backend: bulk import with duplicate resolution, the     *)
(* duplicate-review store and the case lifecycle.  The database is the     *)
(* state; every HTTP handler, service call and scheduled sweep is one      *)
(* action (requests are served one at a time, except for the import job    *)
(* routes, whose handlers interleave at every awaited call, and for the    *)
(* decision and decide routes where two requests race: requests holds the  *)
(* handlers that have read their document and not yet saved it).           *)
(* Strings that the code trims, lower-cases or searches are sequences of   *)
(* one-character strings; None marks an absent / undefined / null field.   *)
(***************************************************************************)
EXTENDS Integers, Sequences, FiniteSets, TLC

VARIABLES businesses, checkIns, cases, reviews, today, job, last, hist,
          importJob, tasks, tempFiles, progress, requests

vars == <<businesses, checkIns, cases, reviews, today, job, last, hist,
          importJob, tasks, tempFiles, progress, requests>>

(* the collections of the case management, and the ImportJob document with *)
(* the request handlers working on it                                      *)
dbVars == <<businesses, checkIns, cases, reviews, today, job, hist, requests>>
jobVars == <<importJob, tasks, tempFiles, progress>>

(* a step of a handler that does not look at the ImportJob document and    *)
(* that no other request interleaves with                                  *)
OnStores(step) == step /\ UNCHANGED jobVars /\ UNCHANGED requests

(* ------------------------------ bounds --------------------------------- *)
MaxBusinesses == 2
MaxCheckIns == 3
MaxCases == 3
MaxReviews == 1
MaxDay == 2
MaxLifecycleCases == 1

(* ------------------------------ values --------------------------------- *)
None == <<"~">>
NoFine == 0
NoDate == 0
Days == 1..MaxDay

CaseTypes == {"TCC", "EVC", "OTHER"}
CaseStatus == {"UnderAssessment", "NotGuilty", "Guilty", "Fined",
               "PendingComeback", "Resolved", "Escalated"}
CaseResult == {"Pass", "Fail", "NeedsReview"}
NoResult == "none"
Officers == {"o1", "o2"}

Idle == [op |-> "init"]

(* a stored sequence with element i replaced *)
SetAt(s, i, v) == [s EXCEPT ![i] = v]

(* ------------------------- history (ghost) ----------------------------- *)
(* hist[c].left counts how often case c has left UnderAssessment (capped   *)
(* at 2); hist[c].decided records that a decision call succeeded on c.     *)
NewHist == [left |-> 0, decided |-> FALSE]

HistNext(old, new, decidedCase) ==
  [c \in 1..Len(new) |->
     IF c > Len(old) THEN NewHist
     ELSE [left |-> IF old[c].status = "UnderAssessment" /\ new[c].status # "UnderAssessment"
                       /\ hist[c].left < 2
                    THEN hist[c].left + 1 ELSE hist[c].left,
           decided |-> hist[c].decided \/ c = decidedCase]]

(* ---------------------------- identifiers ------------------------------ *)
(* utils/caseNumber.js: CASE-YYYYMMDD-NNNN is the pair <<date, counter>>   *)
generateCaseNumber(date, counter) == <<date, counter>>

(* services/caseService.js: count of the cases CREATED on the day of       *)
(* `date`, plus one                                                        *)
nextCaseNumber(date) ==
  generateCaseNumber(date, Cardinality({c \in 1..Len(cases) : cases[c].createdAt = date}) + 1)

(* models/case.js: case_number carries a unique index, so an insert with a *)
(* number that is already stored is rejected                               *)
CaseNumberTaken(cs, n) == \E c \in 1..Len(cs) : cs[c].case_number = n

(* models/case.js defaults of a new Case document *)
NewCase(checkIn, type, number, officer, fine) ==
  [check_in_id |-> checkIn, case_type |-> type, case_number |-> number,
   status |-> "UnderAssessment", result |-> NoResult,
   assigned_officer_id |-> officer, comeback_date |-> NoDate,
   comeback_notification_sent |-> FALSE, fine_amount |-> fine,
   createdAt |-> today]

NewCheckIn(business, officer, date, fine) ==
  [business_id |-> business, officer_id |-> officer, check_in_date |-> date, fine |-> fine]

(* utils/businessId.js: BIZ-YYYYMMDD-NNNN, highest counter of today + 1 *)
MaxOf(S) == IF S = {} THEN 0 ELSE CHOOSE n \in S : \A m \in S : m <= n

generateBusinessId(bs) ==
  <<today, MaxOf({bs[b].business_id[2] : b \in {x \in 1..Len(bs) : bs[x].business_id[1] = today}}) + 1>>

(* utils/taxId.js: TAX-YYYYMMDD-NNNN, highest sequence of today + 1 *)
TaxIdOf(day, n) == <<"TAX", ToString(day), ToString(n)>>

generateTaxId(bs) ==
  LET used == {n \in 1..(Len(bs) + 1) : \E b \in 1..Len(bs) : bs[b].tax_id = TaxIdOf(today, n)}
  IN  TaxIdOf(today, MaxOf(used) + 1)

(* =========================== case lifecycle ============================ *)
FineAmounts == {0, 5}

(* POST /businesses: a Business created through the API; the tax id is     *)
(* generated when the request carries none                                 *)
CreateBusinessApi(name, owner) ==
  /\ Len(businesses) < MaxBusinesses
  /\ businesses' = Append(businesses,
        [business_id |-> generateBusinessId(businesses), business_name |-> name,
         owner_name |-> owner, tax_id |-> generateTaxId(businesses), address |-> None])
  /\ last' = [op |-> "createBusiness", result |-> "ok"]
  /\ hist' = HistNext(cases, cases, 0)
  /\ UNCHANGED <<checkIns, cases, reviews, today, job>>

(* POST /check-ins: the CheckIn is stored, then a Case in UnderAssessment  *)
(* numbered by nextCaseNumber(check_in_date); a rejected Case insert       *)
(* leaves the CheckIn behind                                               *)
CheckInApi(b, date, fine, type, officer) ==
  /\ Len(checkIns) < MaxCheckIns
  /\ Len(cases) < MaxCases
  /\ IF b > Len(businesses)
     THEN /\ last' = [op |-> "checkIn", result |-> "business_not_found"]
          /\ UNCHANGED <<checkIns, cases, hist>>
     ELSE LET ci == Len(checkIns) + 1
              number == nextCaseNumber(date)
              newCases == IF CaseNumberTaken(cases, number) THEN cases
                          ELSE Append(cases, NewCase(ci, type, number, officer, 0))
          IN  /\ checkIns' = Append(checkIns, NewCheckIn(b, officer, date, fine))
              /\ cases' = newCases
              /\ hist' = HistNext(cases, newCases, 0)
              /\ last' = [op |-> "checkIn",
                          result |-> IF newCases = cases THEN "duplicate_key" ELSE "ok"]
  /\ UNCHANGED <<businesses, reviews, today, job>>

(* POST /cases: the document is built with status 'Open', which is not a   *)
(* member of the CaseStatus enum of the schema, so validation rejects it   *)
CreateCaseApi(ci, type) ==
  /\ last' = [op |-> "createCase",
              result |-> IF ci > Len(checkIns) THEN "checkin_not_found"
                         ELSE IF "Open" \in CaseStatus THEN "ok" ELSE "validation_error"]
  /\ UNCHANGED <<businesses, checkIns, cases, reviews, today, job, hist>>

(* PUT /cases/:id: findByIdAndUpdate writes every field the body carries;  *)
(* "absent" / NoDate mark fields the body leaves out                       *)
PutStatuses == {"absent", "UnderAssessment", "Resolved"}

UpdateCase(c, status, comeback) ==
  IF c > Len(cases)
  THEN /\ last' = [op |-> "update", id |-> c, result |-> "not_found"]
       /\ UNCHANGED <<businesses, checkIns, cases, reviews, today, job, hist>>
  ELSE LET updated == [cases[c] EXCEPT
                         !.status = IF status = "absent" THEN @ ELSE status,
                         !.comeback_date = IF comeback = NoDate THEN @ ELSE comeback]
           newCases == SetAt(cases, c, updated)
       IN  /\ cases' = newCases
           /\ hist' = HistNext(cases, newCases, 0)
           /\ last' = [op |-> "update", id |-> c, result |-> "ok"]
           /\ UNCHANGED <<businesses, checkIns, reviews, today, job>>

(* PUT /cases/:id/reassign, called by an admin *)
Reassign(c, officer) ==
  IF c > Len(cases)
  THEN /\ last' = [op |-> "reassign", id |-> c, result |-> "not_found"]
       /\ UNCHANGED <<businesses, checkIns, cases, reviews, today, job, hist>>
  ELSE LET newCases == SetAt(cases, c, [cases[c] EXCEPT !.assigned_officer_id = officer])
       IN  /\ cases' = newCases
           /\ hist' = HistNext(cases, newCases, 0)
           /\ last' = [op |-> "reassign", id |-> c, result |-> "ok"]
           /\ UNCHANGED <<businesses, checkIns, reviews, today, job>>

(* a guard that also lets a case waiting for its comeback be decided again *)
InAssessment_Loose(c) == cases[c].status \in {"UnderAssessment", "PendingComeback"}

(* the guard shared by the three decision handlers *)
InAssessment(c) == cases[c].status = "UnderAssessment"

Decide(op, c, decided) ==
  IF c > Len(cases)
  THEN /\ last' = [op |-> op, id |-> c, result |-> "not_found"]
       /\ UNCHANGED <<businesses, checkIns, cases, reviews, today, job, hist>>
  ELSE IF ~InAssessment(c)
  THEN /\ last' = [op |-> op, id |-> c, result |-> "invalid_state"]
       /\ UNCHANGED <<businesses, checkIns, cases, reviews, today, job, hist>>
  ELSE LET newCases == SetAt(cases, c, decided)
       IN  /\ cases' = newCases
           /\ hist' = HistNext(cases, newCases, c)
           /\ last' = [op |-> op, id |-> c, result |-> "ok"]
           /\ UNCHANGED <<businesses, checkIns, reviews, today, job>>

(* a not-guilty handler that forgets the result *)
NotGuilty_NoResult(c) ==
  Decide("not-guilty", c,
         IF c > Len(cases) THEN None ELSE [cases[c] EXCEPT !.status = "NotGuilty"])

(* POST /cases/:id/decision/not-guilty *)
NotGuilty(c) ==
  Decide("not-guilty", c,
         IF c > Len(cases) THEN None
         ELSE [cases[c] EXCEPT !.status = "NotGuilty", !.result = "Pass"])

(* POST /cases/:id/decision/guilty-fine *)
GuiltyFine(c, amount) ==
  Decide("guilty-fine", c,
         IF c > Len(cases) THEN None
         ELSE [cases[c] EXCEPT !.status = "Fined", !.result = "Fail", !.fine_amount = amount])

(* POST /cases/:id/decision/guilty-comeback *)
GuiltyComeback(c, date) ==
  Decide("guilty-comeback", c,
         IF c > Len(cases) THEN None
         ELSE [cases[c] EXCEPT !.status = "PendingComeback", !.result = "Fail",
                               !.comeback_date = date,
                               !.comeback_notification_sent = FALSE])

RECURSIVE SumFines(_, _)
SumFines(cs, S) ==
  IF S = {} THEN 0
  ELSE LET c == CHOOSE x \in S : TRUE IN cs[c].fine_amount + SumFines(cs, S \ {c})

(* PUT /businesses/:id/fine, called by an admin *)
FineUpdate(b, amount) ==
  IF b > Len(businesses)
  THEN /\ last' = [op |-> "fine", result |-> "not_found"]
       /\ UNCHANGED <<businesses, checkIns, cases, reviews, today, job, hist>>
  ELSE
    LET mine == {i \in 1..Len(checkIns) : checkIns[i].business_id = b}
        myCases == {c \in 1..Len(cases) : cases[c].check_in_id \in mine}
        active == {c \in myCases : cases[c].status = "UnderAssessment"}
        number == nextCaseNumber(today)
    IN
    IF mine = {}
    THEN (* no check-in yet: a CheckIn, then a Case carrying the fine *)
         /\ Len(checkIns) < MaxCheckIns
         /\ Len(cases) < MaxCases
         /\ LET newCases == IF CaseNumberTaken(cases, number) THEN cases
                            ELSE Append(cases, NewCase(Len(checkIns) + 1, "OTHER", number, "o1", amount))
            IN  /\ checkIns' = Append(checkIns, NewCheckIn(b, "o1", today, amount))
                /\ cases' = newCases
                /\ hist' = HistNext(cases, newCases, 0)
                /\ last' = [op |-> "fine",
                            result |-> IF newCases = cases THEN "duplicate_key" ELSE "ok"]
         /\ UNCHANGED <<businesses, reviews, today, job>>
    ELSE IF myCases # {}
    THEN (* the newest case in assessment, else the newest case, absorbs the difference *)
         LET target == IF active # {} THEN MaxOf(active) ELSE MaxOf(myCases)
             difference == amount - SumFines(cases, myCases)
             raw == cases[target].fine_amount + difference
             fine == IF raw < 0 THEN 0 ELSE raw
             newCases == SetAt(cases, target, [cases[target] EXCEPT !.fine_amount = fine])
         IN  /\ cases' = newCases
             /\ checkIns' = SetAt(checkIns, cases[target].check_in_id,
                                  [checkIns[cases[target].check_in_id] EXCEPT !.fine = fine])
             /\ hist' = HistNext(cases, newCases, 0)
             /\ last' = [op |-> "fine", result |-> "ok"]
             /\ UNCHANGED <<businesses, reviews, today, job>>
    ELSE (* check-ins without a case: a Case on the newest CheckIn *)
         /\ Len(cases) < MaxCases
         /\ LET ci == MaxOf(mine)
                taken == CaseNumberTaken(cases, number)
                newCases == IF taken THEN cases
                            ELSE Append(cases, NewCase(ci, "OTHER", number, "o1", amount))
            IN  /\ cases' = newCases
                /\ checkIns' = IF taken THEN checkIns
                               ELSE SetAt(checkIns, ci, [checkIns[ci] EXCEPT !.fine = amount])
                /\ hist' = HistNext(cases, newCases, 0)
                /\ last' = [op |-> "fine", result |-> IF taken THEN "duplicate_key" ELSE "ok"]
         /\ UNCHANGED <<businesses, reviews, today, job>>

(* services/notificationService.js checkComebackDates: every case in       *)
(* PendingComeback whose comeback_date falls in the window from the        *)
(* beginning of today to one hour from now, and that has not been          *)
(* notified, gets its reminders and the flag.  Dates are calendar days:    *)
(* nextHour is the day on which now + 1 hour falls, today or, for a sweep  *)
(* in the last hour of the day, tomorrow                                   *)
Due(c, nextHour) ==
  /\ cases[c].status = "PendingComeback"
  /\ cases[c].comeback_date \in today..nextHour
  /\ ~cases[c].comeback_notification_sent

Sweep ==
  \E nextHour \in {today, today + 1} :
    LET newCases == [c \in 1..Len(cases) |->
                       IF Due(c, nextHour)
                       THEN [cases[c] EXCEPT !.comeback_notification_sent = TRUE]
                       ELSE cases[c]]
    IN  /\ cases' = newCases
        /\ hist' = HistNext(cases, newCases, 0)
        /\ last' = [op |-> "sweep", result |-> "ok"]
        /\ UNCHANGED <<businesses, checkIns, reviews, today, job>>

(* the calendar moves on *)
AdvanceDay ==
  /\ today < MaxDay
  /\ today' = today + 1
  /\ last' = [op |-> "tick", result |-> "ok"]
  /\ UNCHANGED <<businesses, checkIns, cases, reviews, job, hist>>

(* ------------------------ the ImportJob document ----------------------- *)
(* BATCH_SIZE is 50 in the service; batches of two rows keep the files     *)
(* small while leaving row counts that are not a multiple of the batch     *)
BatchSize == 2
MaxFileRows == 3
MaxTasks == 2

ImportRowStatus == {"pending", "processed", "failed"}

(* by: the run whose processImport built the summary, 0 for none *)
NoSummary == [by |-> 0, total |-> 0, failed |-> 0]
NoError == ""
NoRead == [status |-> "none", progressPercent |-> 0]

(* no ImportJob uploaded yet; the schema's defaults for the counters *)
NoDoc ==
  [status |-> "none", file |-> [readable |-> TRUE, rows |-> <<>>], mapping |-> FALSE,
   totalRows |-> 0, processedRows |-> 0, progressPercent |-> 0,
   summary |-> NoSummary, errorMessage |-> NoError, rows |-> <<>>]

NoImport ==
  /\ importJob = NoDoc
  /\ tasks = <<>>
  /\ tempFiles = {}
  /\ progress = NoRead

(* ------------------------------ empty store ---------------------------- *)
ZeroSummary ==
  [createdBusinesses |-> 0, updatedBusinesses |-> 0, createdCheckIns |-> 0,
   createdCases |-> 0, failed |-> 0]

(* job.run is history: the number of imports started so far *)
NoJob ==
  [status |-> "none", policy |-> "none", processedRows |-> 0, summary |-> ZeroSummary,
   run |-> 0]

InitDb ==
  /\ businesses = <<>>
  /\ checkIns = <<>>
  /\ cases = <<>>
  /\ reviews = <<>>
  /\ today = 1
  /\ job = NoJob
  /\ last = Idle
  /\ hist = <<>>
  /\ requests = <<>>
  /\ NoImport

(* ---------------- specification of the case lifecycle ------------------ *)
CaseIds == 1..MaxLifecycleCases
HasRoom == Len(cases) < MaxLifecycleCases /\ Len(checkIns) < MaxLifecycleCases

ApiBusiness == businesses = <<>> /\ CreateBusinessApi(<<"a">>, None)
ApiCheckIn == HasRoom /\ CheckInApi(1, today, 0, "OTHER", "o1")
ApiCreateCase == \E t \in {"OTHER"} : CreateCaseApi(1, t)
ApiUpdate == \E c \in CaseIds, st \in PutStatuses : UpdateCase(c, st, NoDate)
ApiReassign == \E c \in CaseIds : Reassign(c, "o2")
ApiNotGuilty == \E c \in CaseIds : NotGuilty(c)
ApiGuiltyFine == \E c \in CaseIds : GuiltyFine(c, 5)
ApiGuiltyComeback == \E c \in CaseIds, d \in Days : GuiltyComeback(c, d)

NextCases ==
  \/ OnStores(ApiBusiness)
  \/ OnStores(ApiCheckIn)
  \/ OnStores(ApiCreateCase)
  \/ OnStores(ApiUpdate)
  \/ OnStores(ApiReassign)
  \/ OnStores(ApiNotGuilty)
  \/ OnStores(ApiGuiltyFine)
  \/ OnStores(ApiGuiltyComeback)
  \/ OnStores(Sweep)

SpecCases == InitDb /\ [][NextCases]_vars

(* ------------------------ claims: case lifecycle ----------------------- *)
DecisionOps == {"not-guilty", "guilty-fine", "guilty-comeback"}

DecisionFields(k) ==
  <<k.status, k.result, k.fine_amount, k.comeback_date, k.comeback_notification_sent>>

(* C1: a decision (not-guilty, guilty-fine, guilty-comeback) called on a   *)
(* case whose status is not UnderAssessment fails with the invalid-state   *)
(* error and leaves status, result, fine_amount, comeback_date and         *)
(* comeback_notification_sent of the case as they were.                    *)
C1_DecisionRejectedOutsideAssessment ==
  [][\A c \in 1..Len(cases) :
       (last'.op \in DecisionOps /\ last'.id = c /\ cases[c].status # "UnderAssessment")
       => /\ last'.result = "invalid_state"
          /\ DecisionFields(cases'[c]) = DecisionFields(cases[c])]_vars

C1_Witness ==
  /\ last.op = "guilty-comeback"
  /\ last.result = "invalid_state"
  /\ cases[last.id].status = "Fined"
  /\ cases[last.id].comeback_date = NoDate

(* C2: over every sequence of case operations a case leaves                *)
(* UnderAssessment at most once, to NotGuilty, Fined or PendingComeback,   *)
(* and every decision call after the first successful decision fails.      *)
C2_LeavesAssessmentOnce ==
  [][\A c \in 1..Len(cases) :
       /\ (cases[c].status = "UnderAssessment" /\ cases'[c].status # "UnderAssessment")
          => /\ hist[c].left = 0
             /\ cases'[c].status \in {"NotGuilty", "Fined", "PendingComeback"}
       /\ (last'.op \in DecisionOps /\ last'.id = c /\ hist[c].decided)
          => last'.result # "ok"]_vars

(* ========================= duplicate detector ========================== *)
(* JavaScript truthiness of a cell or field: undefined, null and '' fail *)
Truthy(val) == val # None /\ val # <<>>

LowerChar(ch) == IF ch = "A" THEN "a" ELSE IF ch = "B" THEN "b" ELSE ch

(* String.prototype.toLowerCase *)
toLowerCase(str) == [i \in 1..Len(str) |-> LowerChar(str[i])]

(* String.prototype.trim *)
RECURSIVE trim(_)
trim(str) ==
  IF str = <<>> THEN str
  ELSE IF Head(str) = " " THEN trim(Tail(str))
  ELSE IF str[Len(str)] = " " THEN trim(SubSeq(str, 1, Len(str) - 1))
  ELSE str

(* const normalize = (val) => (val || '').trim().toLowerCase() *)
normalize(val) == IF Truthy(val) THEN toLowerCase(trim(val)) ELSE <<>>

(* a stored field against new RegExp(`^${pattern}$`, 'i'): the whole       *)
(* stored string, letter case aside; an absent field matches no regex      *)
MatchesAnchored(stored, pattern) ==
  stored # None /\ toLowerCase(stored) = toLowerCase(pattern)

NoMatch == [business |-> 0, matchType |-> "none"]

(* findOne returns the first matching document *)
FirstOf(S) == CHOOSE b \in S : \A x \in S : b <= x

findDuplicateBusiness(bs, businessName, ownerName, taxId) ==
  LET byTax == {b \in 1..Len(bs) : bs[b].tax_id = taxId}
      byBoth == {b \in 1..Len(bs) :
                   /\ MatchesAnchored(bs[b].business_name, normalize(businessName))
                   /\ MatchesAnchored(bs[b].owner_name, normalize(ownerName))}
  IN  IF Truthy(taxId) /\ byTax # {}
      THEN [business |-> FirstOf(byTax), matchType |-> "tax_id"]
      ELSE IF Truthy(businessName) /\ Truthy(ownerName) /\ byBoth # {}
      THEN [business |-> FirstOf(byBoth), matchType |-> "both"]
      ELSE NoMatch

(* ------------- specification of the detector as a function ------------- *)
(* stored businesses: business_name is trimmed by the schema, owner_name   *)
(* and tax_id are stored as they were given                                *)
StoredNames == {<<"a">>, <<"b">>}
StoredOwners == {None, <<"a">>, <<"A">>, <<" ", "a">>}
StoredTaxIds == {None, <<"t">>}

CandidateNames == {None, <<"a">>, <<"A">>, <<" ", "a">>, <<"b">>}
CandidateOwners == {None, <<>>, <<"a">>, <<"A">>, <<" ", "a">>, <<"b">>}
CandidateTaxIds == {None, <<"t">>, <<"u">>}

StoredBusiness(i, n, o, t) ==
  [business_id |-> <<1, i>>, business_name |-> n, owner_name |-> o, tax_id |-> t,
   address |-> None]

InitDetect ==
  /\ \E k \in 0..MaxBusinesses :
       \E n \in [1..k -> StoredNames], o \in [1..k -> StoredOwners], t \in [1..k -> StoredTaxIds] :
         businesses = [i \in 1..k |-> StoredBusiness(i, n[i], o[i], t[i])]
  /\ checkIns = <<>>
  /\ cases = <<>>
  /\ reviews = <<>>
  /\ today = 1
  /\ job = NoJob
  /\ last = Idle
  /\ hist = <<>>
  /\ requests = <<>>
  /\ NoImport

Detect(n, o, t) ==
  /\ last' = [op |-> "detect", businessName |-> n, ownerName |-> o, taxId |-> t,
              result |-> findDuplicateBusiness(businesses, n, o, t)]
  /\ UNCHANGED <<businesses, checkIns, cases, reviews, today, job, hist>>

NextDetect ==
  OnStores(\E n \in CandidateNames, o \in CandidateOwners, t \in CandidateTaxIds : Detect(n, o, t))

SpecDetect == InitDetect /\ [][NextDetect]_vars

(* C4: the detector answers tax_id with a stored business of that tax id   *)
(* when a tax id is given and stored; otherwise both with a stored         *)
(* business whose name and owner equal the candidate's letter case aside,  *)
(* when both are given; otherwise null (a name-only match is null).        *)
Given(val) == val # None /\ val # <<>>

EqualIgnoringCase(x, y) == x # None /\ y # None /\ toLowerCase(x) = toLowerCase(y)

C4_DetectorContract ==
  last.op = "detect" =>
    LET n == last.businessName
        o == last.ownerName
        t == last.taxId
        r == last.result
        taxHit == Given(t) /\ \E b \in 1..Len(businesses) : businesses[b].tax_id = t
        pairHit == /\ Given(n) /\ Given(o)
                   /\ \E b \in 1..Len(businesses) :
                        /\ EqualIgnoringCase(businesses[b].business_name, n)
                        /\ EqualIgnoringCase(businesses[b].owner_name, o)
    IN  IF taxHit
        THEN r.matchType = "tax_id" /\ businesses[r.business].tax_id = t
        ELSE IF pairHit
        THEN /\ r.matchType = "both"
             /\ EqualIgnoringCase(businesses[r.business].business_name, n)
             /\ EqualIgnoringCase(businesses[r.business].owner_name, o)
        ELSE r = NoMatch

(* ============================ bulk import ============================== *)
(* A row is the record of its mapped cells, each a string or None; the     *)
(* mapping has the columns business_name, owner_name, tax_id, address,     *)
(* fined_amount, case_field and case_date.                                 *)
DigitValue(ch) == CASE ch = "0" -> 0 [] ch = "5" -> 5 [] OTHER -> 0 - 1

RECURSIVE Decimal(_, _)
Decimal(digits, acc) ==
  IF digits = <<>> THEN acc ELSE Decimal(Tail(digits), 10 * acc + DigitValue(Head(digits)))

IsDigit(ch) == DigitValue(ch) >= 0

(* parseFloat(String(raw).replace(/[^0-9.]/g, '')), kept when it is a      *)
(* number above zero; NoFine otherwise                                     *)
parseFine(raw) ==
  IF raw = None THEN NoFine
  ELSE LET digits == SelectSeq(raw, IsDigit)
       IN  IF digits = <<>> \/ Decimal(digits, 0) <= 0 THEN NoFine ELSE Decimal(digits, 0)

(* a date cell is the decimal name of its day *)
DateCell(d) == <<ToString(d)>>

parseDate(dateValue) ==
  IF ~Truthy(dateValue) THEN NoDate
  ELSE LET dateStr == trim(dateValue)
       IN  IF \E d \in Days : dateStr = DateCell(d)
           THEN CHOOSE d \in Days : dateStr = DateCell(d)
           ELSE NoDate

UpperChar(ch) ==
  CASE ch = "t" -> "T" [] ch = "c" -> "C" [] ch = "e" -> "E" [] ch = "v" -> "V"
    [] ch = "a" -> "A" [] ch = "b" -> "B" [] OTHER -> ch

toUpperCase(str) == [i \in 1..Len(str) |-> UpperChar(str[i])]

includes(str, sub) ==
  \E i \in 1..(Len(str) - Len(sub) + 1) : SubSeq(str, i, i + Len(sub) - 1) = sub

extractCaseType(caseValue) ==
  IF ~Truthy(caseValue) THEN "OTHER"
  ELSE LET upperCaseStr == toUpperCase(trim(caseValue))
       IN  IF includes(upperCaseStr, <<"T", "C", "C">>) THEN "TCC"
           ELSE IF includes(upperCaseStr, <<"E", "V", "C">>) THEN "EVC"
           ELSE "OTHER"

(* hasFinedAmount / hasCaseField / hasCaseDate: !== undefined, null, '' *)
HasCell(raw) == raw # None /\ raw # <<>>

businessPayload(row) ==
  [business_name |-> trim(IF Truthy(row.business_name) THEN row.business_name ELSE <<>>),
   owner_name |-> row.owner_name,
   address |-> IF Truthy(row.address) THEN row.address ELSE <<>>,
   tax_id |-> row.tax_id]

(* BusinessModel.updateOne(_, businessPayload): Mongoose leaves undefined  *)
(* keys out of the update, every other key is overwritten                  *)
UpdatedBusiness(old, payload) ==
  [old EXCEPT !.business_name = payload.business_name,
              !.owner_name = IF payload.owner_name = None THEN @ ELSE payload.owner_name,
              !.address = payload.address,
              !.tax_id = IF payload.tax_id = None THEN @ ELSE payload.tax_id]

CreatedBusiness(bs, payload) ==
  [business_id |-> generateBusinessId(bs), business_name |-> payload.business_name,
   owner_name |-> payload.owner_name, tax_id |-> payload.tax_id,
   address |-> payload.address]

(* the candidate kept in a DuplicateReview *)
Snapshot(row) ==
  LET payload == businessPayload(row)
  IN  [business_name |-> payload.business_name, owner_name |-> payload.owner_name,
       address |-> payload.address, tax_id |-> payload.tax_id,
       fined_amount |-> IF Truthy(row.fined_amount) THEN parseFine(row.fined_amount) ELSE NoFine,
       case_field |-> IF Truthy(row.case_field) THEN trim(row.case_field) ELSE None,
       case_date |-> IF Truthy(row.case_date) THEN parseDate(row.case_date) ELSE NoDate]

(* reviews[r].calls is history: the number of decide calls made on the     *)
(* review so far, capped at 2                                              *)
NewReview(existing, row, matchType) ==
  [existing_business_id |-> existing, new_business_data |-> Snapshot(row),
   match_type |-> matchType, status |-> "pending", decision |-> "none", calls |-> 0]

DuplicatePolicies == {"skip", "update", "create", "review"}
MaxRows == 3
MaxImports == 1
ImportUser == "o1"

(* POST /imports/process: a job that is not being processed is started *)
StartImport(policy) ==
  /\ job.status # "processing"
  /\ job.run < MaxImports
  /\ job' = [status |-> "processing", policy |-> policy, processedRows |-> 0,
             summary |-> ZeroSummary, run |-> job.run + 1]
  /\ last' = [op |-> "startImport", result |-> "ok"]
  /\ UNCHANGED <<businesses, checkIns, cases, reviews, today, hist>>

(* the file is exhausted: the job is completed *)
FinishImport ==
  /\ job.status = "processing"
  /\ job' = [job EXCEPT !.status = "completed"]
  /\ last' = [op |-> "finishImport", result |-> "ok"]
  /\ UNCHANGED <<businesses, checkIns, cases, reviews, today, hist>>

(* the stores after a step stay within the bounds *)
StoreFits ==
  /\ Len(businesses') <= MaxBusinesses
  /\ Len(checkIns') <= MaxCheckIns
  /\ Len(cases') <= MaxCases
  /\ Len(reviews') <= MaxReviews

(* if (options.duplicatePolicy === 'review' && options.importJobId): the   *)
(* process route always hands its job id to processImport                  *)
DefersToReview_NoJobId(policy) == FALSE

DefersToReview(policy) == policy = "review"

Bump(summary, field, yes) == IF yes THEN [summary EXCEPT ![field] = @ + 1] ELSE summary

(* processRow on one data row of the job being processed, with the         *)
(* try/catch of processImport around it                                    *)
ImportRow(row) ==
  /\ job.status = "processing"
  /\ job.processedRows < MaxRows
  /\ LET payload == businessPayload(row)
         duplicateResult == findDuplicateBusiness(businesses, payload.business_name,
                                                  payload.owner_name, payload.tax_id)
         isDuplicate == duplicateResult # NoMatch
         counted == [job EXCEPT !.processedRows = @ + 1]
     IN  IF ~Truthy(payload.business_name)
         THEN (* throw new Error('business_name is required') *)
              /\ job' = [counted EXCEPT !.summary = Bump(@, "failed", TRUE)]
              /\ last' = [op |-> "importRow", result |-> "failed"]
              /\ UNCHANGED <<businesses, checkIns, cases, reviews, today, hist>>
         ELSE IF isDuplicate /\ DefersToReview(job.policy)
         THEN /\ reviews' = Append(reviews, NewReview(duplicateResult.business, row,
                                                      duplicateResult.matchType))
              /\ job' = counted
              /\ last' = [op |-> "importRow", result |-> "pending_review"]
              /\ UNCHANGED <<businesses, checkIns, cases, today, hist>>
         ELSE IF isDuplicate /\ job.policy = "skip"
         THEN /\ job' = counted
              /\ last' = [op |-> "importRow", result |-> "skipped"]
              /\ UNCHANGED <<businesses, checkIns, cases, reviews, today, hist>>
         ELSE LET updates == isDuplicate /\ job.policy = "update"
                  businessId == IF updates THEN duplicateResult.business
                                ELSE Len(businesses) + 1
                  checkInDate == IF parseDate(row.case_date) # NoDate
                                 THEN parseDate(row.case_date) ELSE today
                  hasFinedAmount == HasCell(row.fined_amount)
                  hasCaseField == HasCell(row.case_field)
                  hasCaseDate == HasCell(row.case_date)
                  hasCheckIn == Truthy(row.case_date) \/ hasFinedAmount \/ hasCaseField
                                  \/ hasCaseDate
                  fine == IF hasFinedAmount THEN parseFine(row.fined_amount) ELSE NoFine
                  case_number == generateCaseNumber(checkInDate, job.summary.createdCases + 1)
                  wantsCase == hasCaseField /\ hasCheckIn
                  rejected == wantsCase /\ CaseNumberTaken(cases, case_number)
                  newCases == IF wantsCase /\ ~rejected
                              THEN Append(cases, NewCase(Len(checkIns) + 1,
                                                         extractCaseType(row.case_field),
                                                         case_number, ImportUser, fine))
                              ELSE cases
              IN  /\ businesses' = IF updates
                                   THEN SetAt(businesses, businessId,
                                              UpdatedBusiness(businesses[businessId], payload))
                                   ELSE Append(businesses, CreatedBusiness(businesses, payload))
                  /\ checkIns' = IF hasCheckIn
                                 THEN Append(checkIns, NewCheckIn(businessId, ImportUser,
                                                                  checkInDate, fine))
                                 ELSE checkIns
                  /\ cases' = newCases
                  /\ hist' = HistNext(cases, newCases, 0)
                  /\ job' = [counted EXCEPT !.summary =
                               Bump(Bump(Bump(Bump(Bump(@,
                                 "updatedBusinesses", updates),
                                 "createdBusinesses", ~updates),
                                 "createdCheckIns", hasCheckIn),
                                 "createdCases", wantsCase /\ ~rejected),
                                 "failed", rejected)]
                  /\ last' = [op |-> "importRow",
                              result |-> IF rejected THEN "failed" ELSE "processed"]
                  /\ UNCHANGED <<reviews, today>>
  /\ StoreFits

(* ------------------- specification of the import ----------------------- *)
ImportNames == {<<>>, <<"a">>}
ImportOwners == {None, <<"a">>, <<" ", "a">>}
ImportTaxIds == {None, <<"t">>}
ImportFines == {None, <<"5">>}
ImportCaseFields == {None, <<"t", "c", "c">>}
ImportCaseDates == {None} \cup {DateCell(d) : d \in {1}}

ImportRows ==
  [business_name : ImportNames, owner_name : ImportOwners, tax_id : ImportTaxIds,
   address : {None}, fined_amount : ImportFines, case_field : ImportCaseFields,
   case_date : ImportCaseDates]

ProcessImport == \E policy \in DuplicatePolicies : StartImport(policy)
ProcessRow == \E row \in ImportRows : ImportRow(row)

NextImport == OnStores(ProcessImport) \/ OnStores(ProcessRow) \/ OnStores(FinishImport)

SpecImport == InitDb /\ [][NextImport]_vars

(* ------- specification of the import under duplicate policy review ---- *)
ProcessForReview == StartImport("review")

DeferRows ==
  [business_name : {<<"a">>}, owner_name : {<<"a">>, <<" ", "a">>}, tax_id : {None, <<"t">>},
   address : {None}, fined_amount : {<<"5">>},
   case_field : {None, <<"t", "c", "c">>}, case_date : {None}]

ProcessDeferRow == \E row \in DeferRows : ImportRow(row)

NextDefer == OnStores(ProcessForReview) \/ OnStores(ProcessDeferRow) \/ OnStores(FinishImport)

SpecDefer == InitDb /\ [][NextDefer]_vars

(* what processRow has in hand for a row: its payload and the detector's   *)
(* answer on the store before the row                                      *)
RowMatch(row) ==
  findDuplicateBusiness(businesses, businessPayload(row).business_name,
                        businessPayload(row).owner_name, businessPayload(row).tax_id)

RowIsValid(row) == Truthy(businessPayload(row).business_name)

(* C6: from a store in which no two Businesses share a case-insensitive    *)
(* (business_name, owner_name) pair with both parts non-empty, a row       *)
(* processed under policy skip, update or review leaves a store in which   *)
(* still no two Businesses share such a pair.                              *)
SharePair(x, y) ==
  /\ Given(x.business_name) /\ Given(x.owner_name)
  /\ Given(y.business_name) /\ Given(y.owner_name)
  /\ EqualIgnoringCase(x.business_name, y.business_name)
  /\ EqualIgnoringCase(x.owner_name, y.owner_name)

NoSharedPair(bs) ==
  \A b1, b2 \in 1..Len(bs) : b1 # b2 => ~SharePair(bs[b1], bs[b2])

C6_ImportKeepsPairsDistinct ==
  [][(/\ last'.op = "importRow"
      /\ job.policy \in {"skip", "update", "review"}
      /\ NoSharedPair(businesses))
     => NoSharedPair(businesses')]_vars

(* C7: a row that matches an existing Business, processed under policy     *)
(* review, adds exactly one DuplicateReview with status pending, the       *)
(* detector's matchType and the matched Business, and leaves Businesses,   *)
(* CheckIns and Cases as they were.                                        *)
C7_ReviewRowOnlyAddsReview ==
  [][\A row \in DeferRows :
       (/\ last'.op = "importRow"
        /\ job.policy = "review"
        /\ RowIsValid(row)
        /\ RowMatch(row) # NoMatch
        /\ ImportRow(row))
       => /\ Len(reviews') = Len(reviews) + 1
          /\ SubSeq(reviews', 1, Len(reviews)) = reviews
          /\ reviews'[Len(reviews')].status = "pending"
          /\ reviews'[Len(reviews')].match_type = RowMatch(row).matchType
          /\ reviews'[Len(reviews')].existing_business_id = RowMatch(row).business
          /\ businesses' = businesses
          /\ checkIns' = checkIns
          /\ cases' = cases]_vars

C7_Witness ==
  /\ last.op = "importRow"
  /\ last.result = "pending_review"
  /\ job.policy = "review"
  /\ Len(reviews) = 1
  /\ reviews[1].status = "pending"
  /\ reviews[1].match_type = "tax_id"
  /\ reviews[1].new_business_data.case_field = <<"t", "c", "c">>
  /\ reviews[1].new_business_data.fined_amount = 5
  /\ Len(businesses) = 1
  /\ Len(checkIns) = 1
  /\ cases = <<>>

(* C8: a row that resolves to a Business (created, updated or accepted     *)
(* duplicate) and carries a fine amount, a case field or a case date adds  *)
(* exactly one CheckIn under that Business and exactly one Case in         *)
(* UnderAssessment referencing that CheckIn; a row with none of the three  *)
(* adds neither.                                                           *)
RowResolves(row) ==
  /\ RowIsValid(row)
  /\ ~(RowMatch(row) # NoMatch /\ job.policy \in {"review", "skip"})

ResolvedBusiness(row) ==
  IF RowMatch(row) # NoMatch /\ job.policy = "update"
  THEN RowMatch(row).business ELSE Len(businesses) + 1

HasSignal(row) ==
  Given(row.fined_amount) \/ Given(row.case_field) \/ Given(row.case_date)

C8_SignalsMakeOneCheckInOneCase ==
  [][\A row \in ImportRows :
       (last'.op = "importRow" /\ RowResolves(row) /\ ImportRow(row))
       => IF HasSignal(row)
          THEN /\ Len(checkIns') = Len(checkIns) + 1
               /\ SubSeq(checkIns', 1, Len(checkIns)) = checkIns
               /\ checkIns'[Len(checkIns')].business_id = ResolvedBusiness(row)
               /\ Len(cases') = Len(cases) + 1
               /\ SubSeq(cases', 1, Len(cases)) = cases
               /\ cases'[Len(cases')].check_in_id = Len(checkIns')
               /\ cases'[Len(cases')].status = "UnderAssessment"
          ELSE checkIns' = checkIns /\ cases' = cases]_vars

(* ========================= duplicate review ============================ *)
Reviewer == "o2"

(* the case type as the decide handler works it out: EVC wins over TCC *)
decideCaseType(case_field) ==
  LET upperCaseStr == toUpperCase(trim(case_field))
  IN  IF includes(upperCaseStr, <<"E", "V", "C">>) THEN "EVC"
      ELSE IF includes(upperCaseStr, <<"T", "C", "C">>) THEN "TCC"
      ELSE "OTHER"

(* merge: a field is copied when the existing Business lacks it and the    *)
(* snapshot has it; owner_name and address are copied, tax_id is not among *)
(* the fields the handler looks at                                         *)
MergedBusiness(existing, data) ==
  [existing EXCEPT
     !.owner_name = IF ~Truthy(@) /\ Truthy(data.owner_name) THEN data.owner_name ELSE @,
     !.address = IF ~Truthy(@) /\ Truthy(data.address) THEN data.address ELSE @]

Called(review) == [review EXCEPT !.calls = IF @ < 2 THEN @ + 1 ELSE @]

Decided(review, status, decision) ==
  [Called(review) EXCEPT !.status = status, !.decision = decision]

ReviewStatusOf(decision) ==
  CASE decision = "keep" -> "approved" [] decision = "delete" -> "rejected"
    [] decision = "merge" -> "merged"

Decisions == {"keep", "delete", "merge"}

(* the decide handler past its guard: what it does for a review it read  *)
(* as pending                                                             *)
DecideWrite(r, decision) ==
  IF decision = "delete"
  THEN /\ reviews' = SetAt(reviews, r, Decided(reviews[r], "rejected", "delete"))
       /\ last' = [op |-> "decide", ids |-> <<r>>, decision |-> decision,
                   results |-> <<TRUE>>, result |-> "ok"]
       /\ UNCHANGED <<businesses, checkIns, cases, hist>>
  ELSE LET data == reviews[r].new_business_data
           existing == reviews[r].existing_business_id
           target == IF decision = "keep" THEN Len(businesses) + 1 ELSE existing
           hasCheckIn == data.fined_amount # NoFine \/ Truthy(data.case_field)
           wantsCase == Truthy(data.case_field)
           caseNumber == generateCaseNumber(today, 1)
           rejected == wantsCase /\ CaseNumberTaken(cases, caseNumber)
           newCases == IF wantsCase /\ ~rejected
                       THEN Append(cases, NewCase(Len(checkIns) + 1,
                                                  decideCaseType(data.case_field),
                                                  caseNumber, Reviewer, data.fined_amount))
                       ELSE cases
       IN  /\ businesses' = IF decision = "keep"
                            THEN Append(businesses, CreatedBusiness(businesses, data))
                            ELSE SetAt(businesses, existing,
                                       MergedBusiness(businesses[existing], data))
           /\ checkIns' = IF hasCheckIn
                          THEN Append(checkIns,
                                      NewCheckIn(target, Reviewer,
                                                 IF data.case_date # NoDate
                                                 THEN data.case_date ELSE today,
                                                 data.fined_amount))
                          ELSE checkIns
           /\ cases' = newCases
           /\ hist' = HistNext(cases, newCases, 0)
           /\ reviews' = SetAt(reviews, r,
                               IF rejected THEN Called(reviews[r])
                               ELSE Decided(reviews[r], ReviewStatusOf(decision), decision))
           /\ last' = [op |-> "decide", ids |-> <<r>>, decision |-> decision,
                       results |-> <<~rejected>>,
                       result |-> IF rejected THEN "duplicate_key" ELSE "ok"]

(* POST /duplicate-reviews/:id/decide *)
DecideSingle(r, decision) ==
  /\ IF r > Len(reviews)
     THEN /\ last' = [op |-> "decide", ids |-> <<r>>, decision |-> decision,
                      results |-> <<FALSE>>, result |-> "not_found"]
          /\ UNCHANGED <<businesses, checkIns, cases, reviews, hist>>
     ELSE IF reviews[r].status # "pending"
     THEN /\ reviews' = SetAt(reviews, r, Called(reviews[r]))
          /\ last' = [op |-> "decide", ids |-> <<r>>, decision |-> decision,
                      results |-> <<FALSE>>, result |-> "already_processed"]
          /\ UNCHANGED <<businesses, checkIns, cases, hist>>
     ELSE DecideWrite(r, decision)
  /\ StoreFits
  /\ UNCHANGED <<today, job>>

(* one reviewId of POST /duplicate-reviews/bulk-decide, on the stores as   *)
(* the earlier ids of the call left them                                   *)
BulkItem(st, id, decision) ==
  IF id > Len(st.reviews)
  THEN [st EXCEPT !.results = Append(@, FALSE)]
  ELSE IF st.reviews[id].status # "pending"
  THEN [st EXCEPT !.reviews = SetAt(@, id, Called(@[id])), !.results = Append(@, FALSE)]
  ELSE LET data == st.reviews[id].new_business_data
           existing == st.reviews[id].existing_business_id
       IN  [businesses |->
              IF decision = "keep"
              THEN Append(st.businesses, CreatedBusiness(st.businesses, data))
              ELSE IF decision = "merge"
              THEN SetAt(st.businesses, existing, MergedBusiness(st.businesses[existing], data))
              ELSE st.businesses,
            reviews |-> SetAt(st.reviews, id,
                              Decided(st.reviews[id], ReviewStatusOf(decision), decision)),
            results |-> Append(st.results, TRUE)]

RECURSIVE BulkFold(_, _, _)
BulkFold(st, ids, decision) ==
  IF ids = <<>> THEN st ELSE BulkFold(BulkItem(st, Head(ids), decision), Tail(ids), decision)

(* POST /duplicate-reviews/bulk-decide *)
DecideBulk(ids, decision) ==
  /\ LET done == BulkFold([businesses |-> businesses, reviews |-> reviews, results |-> <<>>],
                          ids, decision)
     IN  /\ businesses' = done.businesses
         /\ reviews' = done.reviews
         /\ last' = [op |-> "bulk-decide", ids |-> ids, decision |-> decision,
                     results |-> done.results, result |-> "ok"]
  /\ UNCHANGED <<checkIns, cases, today, job, hist>>
  /\ StoreFits

(* -------------- specification of the duplicate review ------------------ *)
ReviewRows ==
  [business_name : {<<"a">>}, owner_name : {<<"a">>}, tax_id : {None, <<"t">>},
   address : {None, <<"x">>}, fined_amount : {None, <<"5">>},
   case_field : {None, <<"t", "c", "c">>}, case_date : {None}]

ReviewIds == 1..MaxReviews

BulkIdLists == {<<a>> : a \in ReviewIds} \cup {<<a, b>> : a \in ReviewIds, b \in ReviewIds}

ProcessReviewRow == \E row \in ReviewRows : ImportRow(row)
DecideReview == \E r \in ReviewIds, decision \in Decisions : DecideSingle(r, decision)
BulkDecide == \E ids \in BulkIdLists, decision \in Decisions : DecideBulk(ids, decision)

NextReview ==
  \/ OnStores(ProcessForReview)
  \/ OnStores(ProcessReviewRow)
  \/ OnStores(FinishImport)
  \/ OnStores(DecideReview)
  \/ OnStores(BulkDecide)

SpecReview == InitDb /\ [][NextReview]_vars

IdsOf(call) == {call.ids[i] : i \in 1..Len(call.ids)}

ReviewFields(review) == <<review.status, review.decision, review.new_business_data,
                          review.existing_business_id, review.match_type>>

(* C3: of the decide calls made on one DuplicateReview, single or bulk,    *)
(* only the first takes effect: a call on a review that has been called    *)
(* before fails, and a request all of whose reviews have been called       *)
(* before changes no Business, CheckIn, Case or review field.              *)
C3_OnlyFirstDecideTakesEffect ==
  [][last'.op \in {"decide", "bulk-decide"} =>
       /\ \A i \in 1..Len(last'.ids) :
            (last'.ids[i] <= Len(reviews) /\ reviews[last'.ids[i]].calls >= 1)
            => ~last'.results[i]
       /\ (\A r \in IdsOf(last') : r <= Len(reviews) /\ reviews[r].calls >= 1)
          => /\ businesses' = businesses
             /\ checkIns' = checkIns
             /\ cases' = cases
             /\ \A r \in 1..Len(reviews) : ReviewFields(reviews'[r]) = ReviewFields(reviews[r])]_vars

(* C9: decide(keep) on a pending review adds exactly one Business with the *)
(* snapshot's fields and, when the snapshot carries a fine amount or case  *)
(* text, exactly one CheckIn under it and exactly one Case in              *)
(* UnderAssessment referencing that CheckIn; the review ends approved with *)
(* decision keep.                                                          *)
C9_KeepMaterializesSnapshot ==
  [][\A r \in 1..Len(reviews) :
       (/\ last'.op = "decide" /\ last'.ids = <<r>> /\ last'.decision = "keep"
        /\ reviews[r].status = "pending")
       => LET data == reviews[r].new_business_data
              nb == Len(businesses) + 1
          IN  /\ Len(businesses') = nb
              /\ SubSeq(businesses', 1, nb - 1) = businesses
              /\ businesses'[nb].business_name = data.business_name
              /\ businesses'[nb].owner_name = data.owner_name
              /\ businesses'[nb].tax_id = data.tax_id
              /\ businesses'[nb].address = data.address
              /\ (data.fined_amount # NoFine \/ Given(data.case_field))
                 => /\ Len(checkIns') = Len(checkIns) + 1
                    /\ SubSeq(checkIns', 1, Len(checkIns)) = checkIns
                    /\ checkIns'[Len(checkIns')].business_id = nb
                    /\ Len(cases') = Len(cases) + 1
                    /\ SubSeq(cases', 1, Len(cases)) = cases
                    /\ cases'[Len(cases')].check_in_id = Len(checkIns')
                    /\ cases'[Len(cases')].status = "UnderAssessment"
              /\ reviews'[r].status = "approved"
              /\ reviews'[r].decision = "keep"]_vars

(* C10: decide(merge) on a pending review adds no Business; every field    *)
(* of the existing Business that the snapshot holds keeps its value when   *)
(* it was populated and takes the snapshot's value otherwise; the review   *)
(* ends merged.                                                            *)
SnapshotBusinessFields == {"business_name", "owner_name", "tax_id", "address"}

C10_MergeFillsAbsentFields ==
  [][\A r \in 1..Len(reviews) :
       (/\ last'.op = "decide" /\ last'.ids = <<r>> /\ last'.decision = "merge"
        /\ reviews[r].status = "pending")
       => LET data == reviews[r].new_business_data
              e == reviews[r].existing_business_id
          IN  /\ Len(businesses') = Len(businesses)
              /\ \A b \in 1..Len(businesses) : b # e => businesses'[b] = businesses[b]
              /\ \A f \in SnapshotBusinessFields :
                   businesses'[e][f] = IF Given(businesses[e][f]) THEN businesses[e][f]
                                       ELSE IF Given(data[f]) THEN data[f]
                                       ELSE businesses[e][f]
              /\ reviews'[r].status = "merged"]_vars

(* ---------------- bulk decide against single decide -------------------- *)
(* POST /duplicate-reviews/:id/decide as a function of the stores: what    *)
(* one call with this id and decision leaves behind, and what it reports   *)
SingleItem(st, id, decision) ==
  IF id > Len(st.reviews)
  THEN [st EXCEPT !.results = Append(@, FALSE)]
  ELSE IF st.reviews[id].status # "pending"
  THEN [st EXCEPT !.reviews = SetAt(@, id, Called(@[id])), !.results = Append(@, FALSE)]
  ELSE IF decision = "delete"
  THEN [st EXCEPT !.reviews = SetAt(@, id, Decided(@[id], "rejected", "delete")),
                  !.results = Append(@, TRUE)]
  ELSE LET data == st.reviews[id].new_business_data
           existing == st.reviews[id].existing_business_id
           target == IF decision = "keep" THEN Len(st.businesses) + 1 ELSE existing
           hasCheckIn == data.fined_amount # NoFine \/ Truthy(data.case_field)
           wantsCase == Truthy(data.case_field)
           caseNumber == generateCaseNumber(today, 1)
           rejected == wantsCase /\ CaseNumberTaken(st.cases, caseNumber)
       IN  [businesses |->
              IF decision = "keep"
              THEN Append(st.businesses, CreatedBusiness(st.businesses, data))
              ELSE SetAt(st.businesses, existing, MergedBusiness(st.businesses[existing], data)),
            checkIns |->
              IF hasCheckIn
              THEN Append(st.checkIns,
                          NewCheckIn(target, Reviewer,
                                     IF data.case_date # NoDate THEN data.case_date ELSE today,
                                     data.fined_amount))
              ELSE st.checkIns,
            cases |->
              IF wantsCase /\ ~rejected
              THEN Append(st.cases, NewCase(Len(st.checkIns) + 1,
                                            decideCaseType(data.case_field),
                                            caseNumber, Reviewer, data.fined_amount))
              ELSE st.cases,
            reviews |-> SetAt(st.reviews, id,
                              IF rejected THEN Called(st.reviews[id])
                              ELSE Decided(st.reviews[id], ReviewStatusOf(decision), decision)),
            results |-> Append(st.results, ~rejected)]

(* single decide called on each id of the list in turn *)
RECURSIVE SingleFold(_, _, _)
SingleFold(st, ids, decision) ==
  IF ids = <<>> THEN st ELSE SingleFold(SingleItem(st, Head(ids), decision), Tail(ids), decision)

StatusesOf(rs) == [r \in 1..Len(rs) |-> rs[r].status]

(* C11: a bulk-decide over pending reviews leaves Businesses, CheckIns,    *)
(* Cases and the review statuses as single decide called on each id in     *)
(* turn would leave them, and reports every id with the same outcome.      *)
C11_BulkDecideEqualsSingleDecides ==
  [][(/\ last'.op = "bulk-decide"
      /\ \A i \in 1..Len(last'.ids) :
           last'.ids[i] <= Len(reviews) /\ reviews[last'.ids[i]].status = "pending")
     => LET each == SingleFold([businesses |-> businesses, checkIns |-> checkIns,
                                cases |-> cases, reviews |-> reviews, results |-> <<>>],
                               last'.ids, last'.decision)
        IN  /\ businesses' = each.businesses
            /\ checkIns' = each.checkIns
            /\ cases' = each.cases
            /\ StatusesOf(reviews') = StatusesOf(each.reviews)
            /\ last'.results = each.results]_vars

(* single decide as the handler and as the function agree *)
SingleItemIsDecideSingle ==
  [][last'.op = "decide"
     => LET one == SingleItem([businesses |-> businesses, checkIns |-> checkIns,
                               cases |-> cases, reviews |-> reviews, results |-> <<>>],
                              last'.ids[1], last'.decision)
        IN  /\ businesses' = one.businesses /\ checkIns' = one.checkIns
            /\ cases' = one.cases /\ reviews' = one.reviews
            /\ last'.results = one.results]_vars

(* ------------ specification of every path that creates a Case ---------- *)
NumberedRows ==
  [business_name : {<<"a">>}, owner_name : {<<"a">>}, tax_id : {None}, address : {None},
   fined_amount : {None}, case_field : {<<"t", "c", "c">>},
   case_date : {None} \cup {DateCell(d) : d \in Days}]

RegisterBusiness == businesses = <<>> /\ CreateBusinessApi(<<"a">>, <<"a">>)
RecordCheckIn == \E d \in Days : CheckInApi(1, d, 0, "OTHER", "o1")
OpenCase == CreateCaseApi(1, "OTHER")
SetFine == \E a \in FineAmounts : FineUpdate(1, a)
ProcessFile == \E policy \in {"create", "review"} : StartImport(policy)
ProcessNumberedRow == \E row \in NumberedRows : ImportRow(row)
DecideKept == \E decision \in {"keep", "merge"} : DecideSingle(1, decision)

Next ==
  \/ OnStores(RegisterBusiness)
  \/ OnStores(RecordCheckIn)
  \/ OnStores(OpenCase)
  \/ OnStores(SetFine)
  \/ OnStores(ProcessFile)
  \/ OnStores(ProcessNumberedRow)
  \/ OnStores(FinishImport)
  \/ OnStores(DecideKept)
  \/ OnStores(AdvanceDay)

Spec == InitDb /\ [][Next]_vars

(* C5: no two Cases have the same case_number, and of two Cases numbered   *)
(* for the same calendar date the one created later has the higher         *)
(* counter, whichever path created them.                                   *)
C5_CaseNumbersUniqueAndIncreasing ==
  \A c1, c2 \in 1..Len(cases) :
    c1 < c2 =>
      /\ cases[c1].case_number # cases[c2].case_number
      /\ cases[c1].case_number[1] = cases[c2].case_number[1]
         => cases[c1].case_number[2] < cases[c2].case_number[2]


(* ================== import jobs: upload, process, progress ============== *)
(* A task is one request handler at work on the ImportJob: its position,   *)
(* its local variables (tempFilePath, summary, rowLogs) and its in-memory  *)
(* copy of the document (unsaved: completed/summary/rows set, not saved).  *)
(* fault: a download, save or audit call of this run returned an error.    *)
NewTask(kind, policy, jobId) ==
  [kind |-> kind, pc |-> "download", policy |-> policy, jobId |-> jobId,
   tempFilePath |-> FALSE, idx |-> 0, rowLogs |-> <<>>, summary |-> NoSummary,
   unsaved |-> FALSE, fault |-> FALSE, err |-> NoError]

TaskIds == 1..Len(tasks)

(* POST /imports/upload: the rows of the file, or a file the parser rejects *)
Upload(file) ==
  /\ importJob.status = "none"
  /\ importJob' = [NoDoc EXCEPT !.status = "pending", !.file = file]
  /\ last' = [op |-> "upload", result |-> "ok"]
  /\ UNCHANGED <<tasks, tempFiles, progress>>
  /\ UNCHANGED dbVars

(* POST /imports/process up to its response *)
ProcessRequest(policy) ==
  /\ importJob.status # "none"
  /\ IF importJob.status = "processing"
     THEN /\ last' = [op |-> "process", result |-> "already_processing"]
          /\ UNCHANGED <<importJob, tasks>>
     ELSE /\ Len(tasks) < MaxTasks
          /\ importJob' = [importJob EXCEPT !.status = "processing", !.mapping = TRUE,
                                            !.processedRows = 0, !.progressPercent = 0]
          /\ tasks' = Append(tasks, NewTask("process", policy, TRUE))
          /\ last' = [op |-> "process", result |-> "started"]
  /\ UNCHANGED <<tempFiles, progress>>
  /\ UNCHANGED dbVars

(* POST /imports/reprocess up to its first save *)
ReprocessRequest ==
  /\ importJob.status # "none"
  /\ IF ~importJob.mapping
     THEN /\ last' = [op |-> "reprocess", result |-> "no_mapping"]
          /\ UNCHANGED <<importJob, tasks>>
     ELSE /\ Len(tasks) < MaxTasks
          /\ importJob' = [importJob EXCEPT !.status = "processing"]
          /\ tasks' = Append(tasks, NewTask("reprocess", "update", FALSE))
          /\ last' = [op |-> "reprocess", result |-> "started"]
  /\ UNCHANGED <<tempFiles, progress>>
  /\ UNCHANGED dbVars

(* POST /imports/preview up to the download *)
PreviewRequest ==
  /\ importJob.status # "none"
  /\ Len(tasks) < MaxTasks
  /\ tasks' = Append(tasks, NewTask("preview", "none", FALSE))
  /\ last' = [op |-> "preview", result |-> "started"]
  /\ UNCHANGED <<importJob, tempFiles, progress>>
  /\ UNCHANGED dbVars

(* cleanupTempFile in the handler's finally or catch: only a handler whose *)
(* tempFilePath was assigned removes its file                              *)
cleanupTempFile(files, t, task) == IF task.tempFilePath THEN files \ {t} ELSE files

RowsFitSchema(rowLogs) == \A i \in 1..Len(rowLogs) : rowLogs[i].status \in ImportRowStatus

(* the rows a completion save stores: process keeps the first RowLogCap    *)
(* entries of the run's log (1000 in the route, two here, under files of   *)
(* up to MaxFileRows rows), reprocess stores the log whole                 *)
RowLogCap == 2

StoredRows(task) ==
  IF task.kind = "process"
  THEN SubSeq(task.rowLogs, 1, IF Len(task.rowLogs) < RowLogCap THEN Len(task.rowLogs)
                               ELSE RowLogCap)
  ELSE task.rowLogs

(* the document after the catch block of the handler: the background task  *)
(* of process saves failed with the message, together with the fields it   *)
(* had set before a save that did not go through, unless that save is      *)
(* rejected by the schema again; reprocess and preview only call next(err) *)
AfterCatch(doc, task, message) ==
  IF task.kind # "process" THEN doc
  ELSE IF task.unsaved /\ ~RowsFitSchema(StoredRows(task)) THEN doc
  ELSE IF task.unsaved
  THEN [doc EXCEPT !.status = "failed", !.errorMessage = message, !.summary = task.summary,
                   !.rows = StoredRows(task), !.progressPercent = 100]
  ELSE [doc EXCEPT !.status = "failed", !.errorMessage = message]

(* an error thrown in task t: catch, finally, end of the handler *)
Caught(t, task, files, message) ==
  /\ importJob' = AfterCatch(importJob, task, message)
  /\ tasks' = SetAt(tasks, t, [task EXCEPT !.pc = "done", !.err = message])
  /\ tempFiles' = cleanupTempFile(files, t, task)
  /\ last' = [op |-> "caught", result |-> message]

(* downloadToTempFile: GridFS has no such file, or the stream fails after  *)
(* the write stream has created the file, or the path is returned          *)
Download(t) ==
  /\ tasks[t].pc = "download"
  /\ \E outcome \in {"no_file", "write_error", "ok"} :
       IF outcome = "ok"
       THEN /\ tempFiles' = tempFiles \cup {t}
            /\ tasks' = SetAt(tasks, t, [tasks[t] EXCEPT !.tempFilePath = TRUE, !.pc = "parse"])
            /\ last' = [op |-> "download", result |-> "ok"]
            /\ UNCHANGED importJob
       ELSE Caught(t, [tasks[t] EXCEPT !.fault = TRUE],
                   IF outcome = "write_error" THEN tempFiles \cup {t} ELSE tempFiles,
                   "download failed")
  /\ UNCHANGED progress
  /\ UNCHANGED dbVars

(* Math.round(processedRows / totalRows * 100) *)
RoundPercent(processedRows, totalRows) == (200 * processedRows + totalRows) \div (2 * totalRows)

(* fs.unlinkSync(filePath) once processImport has left its batch loop *)
LoopLeft(files, t, idx, totalRows) == IF idx = totalRows THEN files \ {t} ELSE files

(* parsePreview in the preview handler; in the other two the head of       *)
(* processImport: parseFile, the summary, the job's initial progress       *)
Parse(t) ==
  /\ tasks[t].pc = "parse"
  /\ LET task == tasks[t]
         file == importJob.file
         totalRows == Len(file.rows)
     IN  IF ~file.readable
         THEN Caught(t, task, tempFiles, "parse failed")
         ELSE IF task.kind = "preview"
         THEN /\ tasks' = SetAt(tasks, t, [task EXCEPT !.pc = "done"])
              /\ tempFiles' = cleanupTempFile(tempFiles, t, task)
              /\ last' = [op |-> "parse", result |-> "preview"]
              /\ UNCHANGED importJob
         ELSE /\ tasks' = SetAt(tasks, t,
                                [task EXCEPT !.summary = [by |-> t, total |-> totalRows,
                                                          failed |-> 0],
                                             !.pc = IF totalRows = 0 THEN "save" ELSE "rows"])
              /\ importJob' = IF task.jobId
                              THEN [importJob EXCEPT !.totalRows = totalRows,
                                                     !.processedRows = 0,
                                                     !.progressPercent = 0]
                              ELSE importJob
              /\ tempFiles' = LoopLeft(tempFiles, t, 0, totalRows)
              /\ last' = [op |-> "parse", result |-> "ok"]
  /\ UNCHANGED progress
  /\ UNCHANGED dbVars

(* processRow throws when the row's business name is empty *)
ThrowsRequired_Never(row) == FALSE

ThrowsRequired(row) == ~Truthy(trim(row.business_name))

(* the status a data row is logged with: duplicate says whether the        *)
(* detector finds a stored Business for the row                            *)
rowStatus(row, task) ==
  IF ThrowsRequired(row) THEN "failed"
  ELSE IF row.duplicate /\ task.policy = "review" /\ task.jobId THEN "pending_review"
  ELSE "processed"

(* one pass of the row loop of processImport: row idx + 1 of the file *)
Row(t) ==
  /\ tasks[t].pc = "rows"
  /\ LET task == tasks[t]
         i == task.idx + 1
         row == importJob.file.rows[i]
         totalRows == Len(importJob.file.rows)
     IN  /\ tasks' = SetAt(tasks, t,
                           [task EXCEPT
                              !.idx = i,
                              !.rowLogs = Append(@, [rowIndex |-> i + 1,
                                                     status |-> rowStatus(row, task)]),
                              !.summary = Bump(@, "failed", ThrowsRequired(row)),
                              !.pc = IF i % BatchSize = 0 \/ i = totalRows
                                     THEN "batch" ELSE "rows"])
         /\ last' = [op |-> "row", result |-> rowStatus(row, task)]
  /\ UNCHANGED <<importJob, tempFiles, progress>>
  /\ UNCHANGED dbVars

(* the end of a batch: the progress update of a run that was given the job *)
(* id; after the last batch the file is unlinked and processImport returns *)
BatchDone(t) ==
  /\ tasks[t].pc = "batch"
  /\ LET task == tasks[t]
         totalRows == Len(importJob.file.rows)
     IN  /\ importJob' = IF task.jobId
                         THEN [importJob EXCEPT !.processedRows = task.idx,
                                 !.progressPercent = RoundPercent(task.idx, totalRows),
                                 !.summary = task.summary]
                         ELSE importJob
         /\ tasks' = SetAt(tasks, t, [task EXCEPT !.pc = IF task.idx = totalRows
                                                         THEN "save" ELSE "rows"])
         /\ tempFiles' = LoopLeft(tempFiles, t, task.idx, totalRows)
         /\ last' = [op |-> "batch", result |-> "ok"]
  /\ UNCHANGED progress
  /\ UNCHANGED dbVars

(* job.status = 'completed' ... await job.save(): the schema rejects a row *)
(* log whose status is not an ImportRowStatus; the database may fail       *)
Save(t) ==
  /\ tasks[t].pc = "save"
  /\ LET task == [tasks[t] EXCEPT !.unsaved = TRUE]
     IN  IF ~RowsFitSchema(StoredRows(task))
         THEN Caught(t, task, tempFiles, "validation failed")
         ELSE \E saved \in BOOLEAN :
                IF saved
                THEN /\ importJob' =
                          [importJob EXCEPT !.status = "completed", !.summary = task.summary,
                                            !.rows = StoredRows(task),
                                            !.progressPercent =
                                               IF task.kind = "process" THEN 100 ELSE @]
                     /\ tasks' = SetAt(tasks, t, [task EXCEPT !.unsaved = FALSE, !.pc = "audit"])
                     /\ last' = [op |-> "save", result |-> "completed"]
                     /\ UNCHANGED tempFiles
                ELSE Caught(t, [task EXCEPT !.fault = TRUE], tempFiles, "save failed")
  /\ UNCHANGED progress
  /\ UNCHANGED dbVars

(* recordAudit, then the end of the handler *)
Audit(t) ==
  /\ tasks[t].pc = "audit"
  /\ \E logged \in BOOLEAN :
       IF logged
       THEN /\ tasks' = SetAt(tasks, t, [tasks[t] EXCEPT !.pc = "done"])
            /\ tempFiles' = cleanupTempFile(tempFiles, t, tasks[t])
            /\ last' = [op |-> "audit", result |-> "ok"]
            /\ UNCHANGED importJob
       ELSE Caught(t, [tasks[t] EXCEPT !.fault = TRUE], tempFiles, "audit failed")
  /\ UNCHANGED progress
  /\ UNCHANGED dbVars

(* GET /imports/:id/progress *)
ProgressRead ==
  /\ importJob.status # "none"
  /\ progress' = [status |-> importJob.status, progressPercent |-> importJob.progressPercent]
  /\ last' = [op |-> "progress", result |-> importJob.status]
  /\ UNCHANGED <<importJob, tasks, tempFiles>>
  /\ UNCHANGED dbVars

(* ------------------- specification of the import jobs ------------------ *)
FileRows ==
  {[business_name |-> <<>>, duplicate |-> FALSE],
   [business_name |-> <<"a">>, duplicate |-> FALSE],
   [business_name |-> <<"a">>, duplicate |-> TRUE]}

JobFiles ==
  {[readable |-> FALSE, rows |-> <<>>]}
  \cup {[readable |-> TRUE, rows |-> rows] :
          rows \in UNION {[1..n -> FileRows] : n \in 0..MaxFileRows}}

UploadFile == \E file \in JobFiles : Upload(file)
Process == \E policy \in {"update", "review"} : ProcessRequest(policy)

NextJob ==
  \/ UploadFile
  \/ Process
  \/ ReprocessRequest
  \/ PreviewRequest
  \/ \E t \in TaskIds : Download(t)
  \/ \E t \in TaskIds : Parse(t)
  \/ \E t \in TaskIds : Row(t)
  \/ \E t \in TaskIds : BatchDone(t)
  \/ \E t \in TaskIds : Save(t)
  \/ \E t \in TaskIds : Audit(t)

SpecJob == InitDb /\ [][NextJob]_vars

(* C12: the status of an ImportJob only moves pending -> processing ->     *)
(* completed or failed; no step changes the status of a job that is        *)
(* completed or failed.                                                    *)
C12_StatusOnlyMovesForward ==
  [][\/ importJob'.status = importJob.status
     \/ importJob.status = "none" /\ importJob'.status = "pending"
     \/ importJob.status = "pending" /\ importJob'.status = "processing"
     \/ importJob.status = "processing" /\ importJob'.status \in {"completed", "failed"}]_vars

(* C13: whatever the interleaving of process and reprocess requests, at    *)
(* most one handler is inside the batch loop of processImport for the job. *)
InBatchLoop(task) == task.kind \in {"process", "reprocess"} /\ task.pc \in {"rows", "batch"}

C13_AtMostOneBatchLoop == Cardinality({t \in TaskIds : InBatchLoop(tasks[t])}) <= 1

(* ------------- the import jobs with every handler running on ----------- *)
(* Every download, parse and database call returns, and the event loop     *)
(* then resumes the handler that awaited it: a handler that is not done    *)
(* takes its next step.                                                    *)
TaskStep(t) ==
  /\ t \in TaskIds
  /\ (Download(t) \/ Parse(t) \/ Row(t) \/ BatchDone(t) \/ Save(t) \/ Audit(t))

SpecJobLive == InitDb /\ [][NextJob]_vars /\ \A t \in 1..MaxTasks : WF_vars(TaskStep(t))

(* C14: an ImportJob whose persisted status is processing eventually has   *)
(* the persisted status completed or failed.                               *)
C14_ProcessingEnds ==
  (importJob.status = "processing") ~> (importJob.status \in {"completed", "failed"})

(* ------------- specification of the runs of POST /process -------------- *)
ProcessToUpdate == ProcessRequest("update")

NextRows ==
  \/ UploadFile
  \/ ProcessToUpdate
  \/ \E t \in TaskIds : Download(t)
  \/ \E t \in TaskIds : Parse(t)
  \/ \E t \in TaskIds : Row(t)
  \/ \E t \in TaskIds : BatchDone(t)
  \/ \E t \in TaskIds : Save(t)
  \/ \E t \in TaskIds : Audit(t)

SpecRows == InitDb /\ [][NextRows]_vars

NameIsEmpty(row) == Len(trim(row.business_name)) = 0

(* processImport has returned in this run *)
LoopOver(task) ==
  /\ task.kind # "preview"
  /\ task.pc \in {"save", "audit", "done"}
  /\ task.err \notin {"download failed", "parse failed"}

(* C15: a row whose processing throws (its business name is empty) is      *)
(* logged under its own row number with status failed and counted once in  *)
(* summary.failed, and the loop goes on: every row is logged once, in      *)
(* order, and a run that has left the loop has logged all rows.            *)
C15_ThrowingRowFailsAlone ==
  \A t \in TaskIds :
    LET task == tasks[t]
        rows == importJob.file.rows
    IN  /\ Len(task.rowLogs) = task.idx
        /\ \A k \in 1..task.idx :
             /\ task.rowLogs[k].rowIndex = k + 1
             /\ NameIsEmpty(rows[k]) => task.rowLogs[k].status = "failed"
        /\ task.summary.failed = Cardinality({k \in 1..task.idx : NameIsEmpty(rows[k])})
        /\ LoopOver(task) => task.idx = Len(rows)

(* a run that has left the loop after a throwing row and a good row *)
C15_Witness ==
  \E t \in TaskIds :
    /\ LoopOver(tasks[t])
    /\ \E k \in 1..(tasks[t].idx - 1) :
         /\ NameIsEmpty(importJob.file.rows[k])
         /\ tasks[t].rowLogs[k].status = "failed"
         /\ tasks[t].rowLogs[k + 1].status = "processed"
         /\ tasks[t].summary.failed = 1

(* C16: a run of process under policy review that deferred at least one    *)
(* row, and in which no download or database call failed, ends its         *)
(* completion save with the job completed and the row log persisted, the   *)
(* deferred rows in it with status pending_review.                         *)
Deferred(task) == {k \in 1..Len(task.rowLogs) : task.rowLogs[k].status = "pending_review"}

C16_DeferredRunCompletes ==
  [][\A t \in TaskIds :
       (/\ tasks[t].pc = "save" /\ tasks'[t].pc # "save"
        /\ tasks[t].policy = "review"
        /\ Deferred(tasks[t]) # {}
        /\ ~tasks'[t].fault)
       => /\ importJob'.status = "completed"
          /\ importJob'.rows = StoredRows(tasks[t])]_vars

(* C17: a failed ImportJob has its errorMessage set, and the persisted     *)
(* summary is never that of a run that ended in an error.                  *)
EndedInError(task) == task.pc = "done" /\ task.err # NoError

C17_FailedJobHasNoSummary ==
  /\ importJob.status = "failed" => importJob.errorMessage # NoError
  /\ \A t \in TaskIds : EndedInError(tasks[t]) => importJob.summary.by # t

(* C18: the persisted processedRows never decreases, never exceeds the     *)
(* persisted totalRows, and is always a whole number of batches or         *)
(* totalRows.                                                              *)
C18_ProcessedRowsMonotone ==
  [][/\ importJob'.processedRows >= importJob.processedRows
     /\ importJob'.processedRows <= importJob'.totalRows
     /\ \/ importJob'.processedRows % BatchSize = 0
        \/ importJob'.processedRows = importJob'.totalRows]_vars

(* ------------ specification of a job polled while it is run ------------ *)
NextProgress ==
  \/ UploadFile
  \/ Process
  \/ \E t \in TaskIds : Download(t)
  \/ \E t \in TaskIds : Parse(t)
  \/ \E t \in TaskIds : Row(t)
  \/ \E t \in TaskIds : BatchDone(t)
  \/ \E t \in TaskIds : Save(t)
  \/ \E t \in TaskIds : Audit(t)
  \/ ProgressRead

SpecProgress == InitDb /\ [][NextProgress]_vars

(* C19: a progress read never returns a smaller progressPercent than the   *)
(* read before it, and returns 100 only together with status completed.    *)
C19_ProgressMonotoneAndFinal ==
  [][last'.op = "progress"
     => /\ progress.status # "none" => progress'.progressPercent >= progress.progressPercent
        /\ progress'.progressPercent = 100 => progress'.status = "completed"]_vars

(* C20: once a preview, process or reprocess run has ended, the temporary  *)
(* file it wrote is no longer on disk.                                     *)
C20_TempFileRemoved == \A t \in TaskIds : tasks[t].pc = "done" => t \notin tempFiles


(* ===================== further claims on the cases ===================== *)
(* C21: a successful decision on a case in UnderAssessment sets status     *)
(* and result (NotGuilty/Pass, Fined/Fail with the amount,                 *)
(* PendingComeback/Fail with the date and the notification flag false),    *)
(* leaves case_number, check_in_id and case_type alone, and touches no     *)
(* other case.                                                             *)
IdentityOf(case) == <<case.case_number, case.check_in_id, case.case_type>>

C21_DecisionSetsItsFields ==
  [][\A c \in 1..Len(cases) :
       (/\ last'.op \in DecisionOps /\ last'.id = c /\ last'.result = "ok"
        /\ cases[c].status = "UnderAssessment")
       => /\ Len(cases') = Len(cases)
          /\ \A d \in 1..Len(cases) : d # c => cases'[d] = cases[d]
          /\ IdentityOf(cases'[c]) = IdentityOf(cases[c])
          /\ last'.op = "not-guilty"
               => /\ cases'[c].status = "NotGuilty" /\ cases'[c].result = "Pass"
                  /\ cases'[c].fine_amount = cases[c].fine_amount
                  /\ cases'[c].comeback_date = cases[c].comeback_date
          /\ last'.op = "guilty-fine"
               => /\ cases'[c].status = "Fined" /\ cases'[c].result = "Fail"
                  /\ \A amount \in FineAmounts :
                       GuiltyFine(c, amount) => cases'[c].fine_amount = amount
                  /\ cases'[c].comeback_date = cases[c].comeback_date
          /\ last'.op = "guilty-comeback"
               => /\ cases'[c].status = "PendingComeback" /\ cases'[c].result = "Fail"
                  /\ \A date \in Days :
                       GuiltyComeback(c, date) => cases'[c].comeback_date = date
                  /\ cases'[c].comeback_notification_sent = FALSE
                  /\ cases'[c].fine_amount = cases[c].fine_amount]_vars

(* a case fined by a successful guilty-fine decision *)
C21_Witness ==
  /\ last.op = "guilty-fine" /\ last.result = "ok"
  /\ cases[last.id].status = "Fined" /\ cases[last.id].fine_amount = 5

NextComeback ==
  \/ OnStores(ApiBusiness)
  \/ OnStores(ApiCheckIn)
  \/ OnStores(ApiUpdate)
  \/ OnStores(ApiGuiltyComeback)
  \/ OnStores(Sweep)
  \/ OnStores(AdvanceDay)

SpecComeback == InitDb /\ [][NextComeback]_vars

(* setInterval keeps calling the sweep, and time does not stop *)
SpecComebackLive ==
  /\ InitDb
  /\ [][NextComeback]_vars
  /\ WF_vars(OnStores(Sweep))
  /\ WF_vars(OnStores(AdvanceDay))

(* C23: comeback_notification_sent is a latch: it goes from true to false  *)
(* only through a successful guilty-comeback decision on that case, and    *)
(* from false to true only through the sweep, for a case that is in        *)
(* PendingComeback and whose comeback_date has arrived.                    *)
C23_NotificationFlagIsLatch ==
  [][\A c \in 1..Len(cases) :
       /\ (cases[c].comeback_notification_sent /\ ~cases'[c].comeback_notification_sent)
            => last' = [op |-> "guilty-comeback", id |-> c, result |-> "ok"]
       /\ (~cases[c].comeback_notification_sent /\ cases'[c].comeback_notification_sent)
            => /\ last'.op = "sweep"
               /\ cases[c].status = "PendingComeback"
               /\ cases[c].comeback_date <= today]_vars

(* C24: a case in PendingComeback whose comeback_date has arrived, whether *)
(* the date given to guilty-comeback was past, today or future, eventually *)
(* has its reminder sent by a sweep, unless it leaves PendingComeback.     *)
Arrived(c) ==
  /\ c <= Len(cases)
  /\ cases[c].status = "PendingComeback"
  /\ cases[c].comeback_date <= today

C24_ArrivedComebackIsNotified ==
  \A c \in CaseIds :
    (Arrived(c) /\ ~cases[c].comeback_notification_sent)
      ~> (~Arrived(c) \/ cases[c].comeback_notification_sent)

(* ------------------------ the persisted row log ------------------------ *)
(* C25: after the completion save of a process or reprocess run the        *)
(* persisted row log holds at most RowLogCap entries, and when the run     *)
(* produced more, the entries kept are the newest: the oldest are dropped. *)
NewestRows(rowLogs) ==
  IF Len(rowLogs) > RowLogCap
  THEN SubSeq(rowLogs, Len(rowLogs) - RowLogCap + 1, Len(rowLogs))
  ELSE rowLogs

C25_RowLogCappedOldestDropped ==
  [][\A t \in TaskIds :
       (tasks[t].pc = "save" /\ tasks'[t].pc = "audit")
       => /\ Len(importJob'.rows) <= RowLogCap
          /\ importJob'.rows = NewestRows(tasks[t].rowLogs)]_vars

(* ================ two requests racing on one document ================== *)
(* A request is a handler between its findById and its save: op and arg    *)
(* are the route and its body, doc the document as the handler read it,    *)
(* result "none" until the handler has answered.                           *)
MaxRequests == 2

NewRequest(kind, op, id, arg, doc, result) ==
  [kind |-> kind, op |-> op, id |-> id, arg |-> arg, doc |-> doc,
   pc |-> IF result = "none" THEN "save" ELSE "done", result |-> result]

Answered(q, result) == SetAt(requests, q, [requests[q] EXCEPT !.pc = "done", !.result = result])

(* the assignments of a decision handler on the document it holds *)
Assigned(op, arg, doc) ==
  CASE op = "not-guilty" -> [doc EXCEPT !.status = "NotGuilty", !.result = "Pass"]
    [] op = "guilty-fine" ->
         [doc EXCEPT !.status = "Fined", !.result = "Fail", !.fine_amount = arg]
    [] op = "guilty-comeback" ->
         [doc EXCEPT !.status = "PendingComeback", !.result = "Fail",
                     !.comeback_date = arg, !.comeback_notification_sent = FALSE]

(* caseItem.save(): the paths whose value the handler changed are written  *)
(* over the stored document, the others are left as they are stored        *)
SaveModified(stored, doc, assigned) ==
  [f \in DOMAIN stored |-> IF assigned[f] # doc[f] THEN assigned[f] ELSE stored[f]]

(* a decision handler up to its guard: findById, 404, 400 *)
ReadDecision(op, c, arg) ==
  /\ Len(requests) < MaxRequests
  /\ LET result == IF c > Len(cases) THEN "not_found"
                   ELSE IF ~InAssessment(c) THEN "invalid_state" ELSE "none"
         doc == IF c > Len(cases) THEN None ELSE cases[c]
     IN  /\ requests' = Append(requests, NewRequest("decision", op, c, arg, doc, result))
         /\ last' = [op |-> op, id |-> c, result |-> IF result = "none" THEN "read" ELSE result]
  /\ UNCHANGED <<businesses, checkIns, cases, reviews, today, job, hist>>
  /\ UNCHANGED jobVars

(* the rest of the decision handler: the assignments and the save *)
SaveDecision(q) ==
  /\ q <= Len(requests)
  /\ requests[q].kind = "decision"
  /\ requests[q].pc = "save"
  /\ LET rq == requests[q]
         newCases == SetAt(cases, rq.id,
                           SaveModified(cases[rq.id], rq.doc, Assigned(rq.op, rq.arg, rq.doc)))
     IN  /\ cases' = newCases
         /\ hist' = HistNext(cases, newCases, rq.id)
         /\ requests' = Answered(q, "ok")
         /\ last' = [op |-> rq.op, id |-> rq.id, result |-> "ok"]
  /\ UNCHANGED <<businesses, checkIns, reviews, today, job>>
  /\ UNCHANGED jobVars

(* the decide handler up to its guard: findById, 404, 400 *)
ReadReview(r, decision) ==
  /\ Len(requests) < MaxRequests
  /\ LET result == IF r > Len(reviews) THEN "not_found"
                   ELSE IF reviews[r].status # "pending" THEN "already_processed"
                   ELSE "none"
         doc == IF r > Len(reviews) THEN None ELSE reviews[r]
     IN  /\ requests' = Append(requests, NewRequest("decide", decision, r, 0, doc, result))
         /\ reviews' = IF result = "already_processed"
                       THEN SetAt(reviews, r, Called(reviews[r])) ELSE reviews
         /\ last' = [op |-> "decide", ids |-> <<r>>, decision |-> decision,
                     results |-> <<FALSE>>,
                     result |-> IF result = "none" THEN "read" ELSE result]
  /\ UNCHANGED <<businesses, checkIns, cases, today, job, hist>>
  /\ UNCHANGED jobVars

(* the rest of the decide handler, for the review it read as pending *)
WriteReview(q) ==
  /\ q <= Len(requests)
  /\ requests[q].kind = "decide"
  /\ requests[q].pc = "save"
  /\ DecideWrite(requests[q].id, requests[q].op)
  /\ StoreFits
  /\ requests' = Answered(q, last'.result)
  /\ UNCHANGED <<today, job>>
  /\ UNCHANGED jobVars

RequestIds == 1..MaxRequests

(* ------------- specification of two decides on one review -------------- *)
RaceDecide == \E r \in ReviewIds, decision \in Decisions : ReadReview(r, decision)
RaceWrite == \E q \in RequestIds : WriteReview(q)

NextReviewRace ==
  \/ OnStores(ProcessForReview)
  \/ OnStores(ProcessReviewRow)
  \/ OnStores(FinishImport)
  \/ RaceDecide
  \/ RaceWrite

SpecReviewRace == InitDb /\ [][NextReviewRace]_vars

(* C26: of two decide requests on the same pending review that both read   *)
(* it before either saves, at most one takes effect: the review never      *)
(* yields two Businesses, two CheckIns or two Cases.                       *)
TookEffect(r) ==
  {q \in 1..Len(requests) :
     /\ requests[q].kind = "decide" /\ requests[q].id = r
     /\ requests[q].op \in {"keep", "merge"}
     /\ requests[q].result \in {"ok", "duplicate_key"}}

C26_OneDecideTakesEffect ==
  /\ \A r \in 1..Len(reviews) : Cardinality(TookEffect(r)) <= 1
  /\ Cardinality({i \in 1..Len(checkIns) : checkIns[i].officer_id = Reviewer}) <= Len(reviews)

(* ------------ specification of two decisions on one case --------------- *)
RaceDecision ==
  \E c \in CaseIds :
    \/ ReadDecision("not-guilty", c, 0)
    \/ ReadDecision("guilty-fine", c, 5)
    \/ \E d \in Days : ReadDecision("guilty-comeback", c, d)
RaceSave == \E q \in RequestIds : SaveDecision(q)

NextCaseRace ==
  \/ OnStores(ApiBusiness)
  \/ OnStores(ApiCheckIn)
  \/ RaceDecision
  \/ RaceSave

SpecCaseRace == InitDb /\ [][NextCaseRace]_vars

(* C27: of two decision requests on the same case in UnderAssessment at    *)
(* most one succeeds, and the case's status, result, fine_amount and       *)
(* comeback_date are those that the one successful decision assigned.      *)
Succeeded(c) ==
  {q \in 1..Len(requests) :
     requests[q].kind = "decision" /\ requests[q].id = c /\ requests[q].result = "ok"}

DecisionFieldsOf(case) ==
  <<case.status, case.result, case.fine_amount, case.comeback_date>>

C27_OneDecisionWins ==
  \A c \in 1..Len(cases) :
    /\ Cardinality(Succeeded(c)) <= 1
    /\ \A q \in Succeeded(c) :
         DecisionFieldsOf(cases[c]) =
           DecisionFieldsOf(Assigned(requests[q].op, requests[q].arg, requests[q].doc))

(* ----------------------- a decide that fails --------------------------- *)
(* C28: a decide(keep) or decide(merge) that fails part-way leaves the     *)
(* store as it was: no Business or CheckIn it created remains, the         *)
(* existing Business is not modified, and the review is still pending.     *)
DecideFailed ==
  /\ last'.op = "decide"
  /\ last'.decision \in {"keep", "merge"}
  /\ last'.result = "duplicate_key"

C28_FailedDecideLeavesNothing ==
  [][DecideFailed =>
       /\ businesses' = businesses
       /\ checkIns' = checkIns
       /\ cases' = cases
       /\ \A i \in 1..Len(last'.ids) : reviews'[last'.ids[i]].status = "pending"]_vars

(* ----------------------- an import row that fails ---------------------- *)
(* C29: an import row logged as failed left nothing behind: no Business    *)
(* created or updated, no CheckIn or Case created, and no counter of the   *)
(* summary other than failed incremented.                                  *)
RowFailed == last'.op = "importRow" /\ last'.result = "failed"

C29_FailedRowLeavesNothing ==
  [][RowFailed =>
       /\ businesses' = businesses
       /\ checkIns' = checkIns
       /\ cases' = cases
       /\ job'.summary = [job.summary EXCEPT !.failed = @ + 1]]_vars

(* -------------- specification of the case type of a text --------------- *)
(* case-field texts: up to three pieces, so that a text can hold TCC and   *)
(* EVC together, in either order and in any letter case                    *)
CaseWords ==
  {<<>>, <<"x">>, <<" ">>, <<"t", "c", "c">>, <<"T", "c", "C">>, <<"e", "v", "c">>,
   <<"E", "V", "c">>, <<"t", "c">>}

CaseTexts == {a \o b \o c : a \in CaseWords, b \in CaseWords, c \in CaseWords}

(* the Row Processor on a case field *)
ExtractType(text) ==
  /\ HasCell(text)
  /\ last' = [op |-> "extractCaseType", caseField |-> text, result |-> extractCaseType(text)]
  /\ UNCHANGED <<businesses, checkIns, cases, reviews, today, job, hist>>

(* the decide handler on the case field of a snapshot *)
DecideType(text) ==
  /\ Truthy(text)
  /\ last' = [op |-> "decideCaseType", caseField |-> text, result |-> decideCaseType(text)]
  /\ UNCHANGED <<businesses, checkIns, cases, reviews, today, job, hist>>

NextCaseType ==
  \/ OnStores(\E text \in CaseTexts : ExtractType(text))
  \/ OnStores(\E text \in CaseTexts : DecideType(text))

SpecCaseType == InitDb /\ [][NextCaseType]_vars

(* C30: for every case-field text the case type that the decide handler    *)
(* assigns is the one the Row Processor assigns: TCC or EVC when the text  *)
(* holds that substring in any letter case, OTHER otherwise, also for a    *)
(* text that holds both.                                                   *)
C30_DecideTypeIsImportType ==
  last.op \in {"extractCaseType", "decideCaseType"}
    => /\ last.result = extractCaseType(last.caseField)
       /\ last.result = decideCaseType(last.caseField)
====
